---- MODULE Spec2Model ----
(***************************************************************************)
(* Model of the table DDL handlers of ddl/table.go: onCreateTable,         *)
(* onDropTable, onTruncateTable, getTableInfo, delReorgTable.              *)
(*                                                                         *)
(* The state is what the handlers read and write through their two         *)
(* arguments: the metadata (t *meta.Meta: table descriptors, the schema    *)
(* version, the history) and the job (job *model.Job).  One action is one  *)
(* handler invocation.  A handler never undoes a write it has issued, so   *)
(* the metadata after an invocation is the metadata with every write that  *)
(* succeeded before the handler returned.                                  *)
(***************************************************************************)
EXTENDS Integers, Sequences, FiniteSets, TLC

\* ---------------------------------------------------------------- bounds
MaxJobs == 3
MaxVersion == 5
MaxRows == 5
\* the batch limit of one reclamation, scaled down
defaultBatchSize == 2

\* ------------------------------------------------------------- universes
\* the schemas jobs name, and the schemas that exist: 6 does not exist, and 7
\* is a schema no job of the model names
SchemaIDs == {5, 6}
DBs == {5, 7}
TableIDs == {10, 11, 20}
\* the table definitions a create job may carry: <<name, columns>>
TableDefs == {<<"t", "a">>, <<"T", "ab">>, <<"u", "a">>}

\* model.SchemaState
StateNone == "none"
StateDeleteOnly == "delete only"
StateWriteOnly == "write only"
StatePublic == "public"
SchemaStates == {StateNone, StateDeleteOnly, StateWriteOnly, StatePublic}

\* model.JobState
JobRunning == "running"
JobDone == "done"
JobCancelled == "cancelled"

\* errors
Nil == "nil"
ErrDecodeArgs == "decode args"
ErrKV == "kv error"
ErrDBNotExists == "meta: database doesn't exist"
MetaErrTableExists == "meta: table already exists"
MetaErrTableNotExists == "meta: table doesn't exist"
ErrDatabaseNotExists == "infoschema: database not exists"
ErrTableExists == "infoschema: table exists"
ErrTableNotExists == "infoschema: table not exists"
ErrInvalidTableState == "ddl: invalid table state"

StoreOps == {"ListTables", "GetTable", "CreateTable", "UpdateTable", "DropTable",
             "GenSchemaVersion"}

\* the store operations that fail in one invocation.  A handler returns at the
\* first failing operation, except that onDropTable issues UpdateTable and
\* DropTable back to back: no failure, one failure, and that pair cover every
\* outcome.
FaultSets ==
    {f \in SUBSET StoreOps : Cardinality(f) <= 1} \cup {{"UpdateTable", "DropTable"}}

NoTable == [ID |-> 0]
NoJob == [ID |-> 0]
NoCall == [handler |-> "none"]
BadArgs == [bad |-> TRUE]
NoArgs == [bad |-> FALSE]
CreateArgs(tbInfo) == [bad |-> FALSE, tbInfo |-> tbInfo]
TruncateArgs(newTableID) == [bad |-> FALSE, newTableID |-> newTableID]

\* model.CIStr: O is the name as written, L its lower-case form
ToLower(o) == IF o = "T" THEN "t" ELSE o
NewCIStr(o) == [O |-> o, L |-> ToLower(o)]

\* model.TableInfo
TableInfo(id, o, cols, st) == [ID |-> id, Name |-> NewCIStr(o), Cols |-> cols, State |-> st]

VARIABLES
    tables,         \* meta: [DBs -> [TableIDs -> TableInfo or NoTable]]
    schemaVersion,  \* meta: the schema version counter
    history,        \* the history entries appended so far
    job,            \* the DDL job the worker is running, or NoJob
    parked,         \* a Running job the worker has set aside, or NoJob
    nJobs,          \* how many jobs have been submitted
    rows,           \* the number of encoded rows under each table prefix
    bgJob,          \* the background job the reclamation worker is running
    last,           \* the last handler invocation: handler, error, state before
    obs             \* the observer's count of the current job's invocations

vars == <<tables, schemaVersion, history, job, parked, nJobs, rows, bgJob, last, obs>>

\* ------------------------------------------------------------ meta.Meta
\* m is the metadata as the transaction sees it: [tables, ver]
Meta == [tables |-> tables, ver |-> schemaVersion]

RECURSIVE SortedSeq(_)
SortedSeq(S) ==
    IF S = {} THEN <<>>
    ELSE LET x == CHOOSE y \in S : \A z \in S : y <= z
         IN <<x>> \o SortedSeq(S \ {x})

ListTables(m, dbID, fails) ==
    IF "ListTables" \in fails THEN [err |-> ErrKV, val |-> <<>>]
    ELSE IF dbID \notin DBs THEN [err |-> ErrDBNotExists, val |-> <<>>]
    ELSE LET ids == SortedSeq({id \in TableIDs : m.tables[dbID][id] # NoTable})
         IN [err |-> Nil, val |-> [i \in 1..Len(ids) |-> m.tables[dbID][ids[i]]]]

GetTable(m, dbID, tableID, fails) ==
    IF "GetTable" \in fails THEN [err |-> ErrKV, val |-> NoTable]
    ELSE IF dbID \notin DBs THEN [err |-> ErrDBNotExists, val |-> NoTable]
    ELSE [err |-> Nil, val |-> m.tables[dbID][tableID]]

CreateTable(m, dbID, tbInfo, fails) ==
    IF "CreateTable" \in fails THEN [err |-> ErrKV, m |-> m]
    ELSE IF dbID \notin DBs THEN [err |-> ErrDBNotExists, m |-> m]
    ELSE IF m.tables[dbID][tbInfo.ID] # NoTable THEN [err |-> MetaErrTableExists, m |-> m]
    ELSE [err |-> Nil, m |-> [m EXCEPT !.tables[dbID][tbInfo.ID] = tbInfo]]

UpdateTable(m, dbID, tbInfo, fails) ==
    IF "UpdateTable" \in fails THEN [err |-> ErrKV, m |-> m]
    ELSE IF dbID \notin DBs THEN [err |-> ErrDBNotExists, m |-> m]
    ELSE IF m.tables[dbID][tbInfo.ID] = NoTable THEN [err |-> MetaErrTableNotExists, m |-> m]
    ELSE [err |-> Nil, m |-> [m EXCEPT !.tables[dbID][tbInfo.ID] = tbInfo]]

DropTable(m, dbID, tableID, fails) ==
    IF "DropTable" \in fails THEN [err |-> ErrKV, m |-> m]
    ELSE IF dbID \notin DBs THEN [err |-> ErrDBNotExists, m |-> m]
    ELSE IF m.tables[dbID][tableID] = NoTable THEN [err |-> MetaErrTableNotExists, m |-> m]
    ELSE [err |-> Nil, m |-> [m EXCEPT !.tables[dbID][tableID] = NoTable]]

\* ------------------------------------------------- version and history
updateSchemaVersion(m, fails) ==
    IF "GenSchemaVersion" \in fails THEN [err |-> ErrKV, ver |-> 0, m |-> m]
    ELSE [err |-> Nil, ver |-> m.ver + 1, m |-> [m EXCEPT !.ver = m.ver + 1]]

addTableHistoryInfo(h, j, ver, tblInfo) ==
    Append(h, [ver |-> ver, jobID |-> j.ID, tbl |-> tblInfo])

\* what a handler hands back: the metadata, the history, the job, the error;
\* lost is an error the handler has assigned to err and overwritten before it
\* returned
Ret(m, h, j, err) == [m |-> m, h |-> h, job |-> j, err |-> err, lost |-> Nil]

\* ------------------------------------------------------- onCreateTable
\* the loop over the listed tables: stops at the first table with the same
\* name and another ID, and continues with the stored descriptor otherwise
\* mutant: the names are compared as written, not case-normalized
RECURSIVE ScanTables_CaseSensitive(_, _, _)
ScanTables_CaseSensitive(tbls, i, tbInfo) ==
    IF i > Len(tbls) THEN [exists |-> FALSE, tbInfo |-> tbInfo]
    ELSE IF tbls[i].Name.O = tbInfo.Name.O
         THEN IF tbls[i].ID # tbInfo.ID
              THEN [exists |-> TRUE, tbInfo |-> tbInfo]
              ELSE ScanTables_CaseSensitive(tbls, i + 1, tbls[i])
         ELSE ScanTables_CaseSensitive(tbls, i + 1, tbInfo)

RECURSIVE ScanTables(_, _, _)
ScanTables(tbls, i, tbInfo) ==
    IF i > Len(tbls) THEN [exists |-> FALSE, tbInfo |-> tbInfo]
    ELSE IF tbls[i].Name.L = tbInfo.Name.L
         THEN IF tbls[i].ID # tbInfo.ID
              THEN [exists |-> TRUE, tbInfo |-> tbInfo]
              ELSE ScanTables(tbls, i + 1, tbls[i])
         ELSE ScanTables(tbls, i + 1, tbInfo)

onCreateTable(m, h, j, fails) ==
    IF j.Args.bad
    THEN Ret(m, h, [j EXCEPT !.State = JobCancelled], ErrDecodeArgs)
    ELSE
    LET schemaID == j.SchemaID
        decoded == [j.Args.tbInfo EXCEPT !.State = StateNone]
        lst == ListTables(m, schemaID, fails)
    IN  IF lst.err = ErrDBNotExists
        THEN Ret(m, h, [j EXCEPT !.State = JobCancelled], ErrDatabaseNotExists)
        ELSE IF lst.err # Nil THEN Ret(m, h, j, lst.err)
        ELSE
        LET scan == ScanTables(lst.val, 1, decoded)
            tbInfo == scan.tbInfo
        IN  IF scan.exists
            THEN Ret(m, h, [j EXCEPT !.State = JobCancelled], ErrTableExists)
            ELSE
            LET v == updateSchemaVersion(m, fails)
            IN  IF v.err # Nil THEN Ret(m, h, j, v.err)
                ELSE IF tbInfo.State = StateNone
                THEN LET j1 == [j EXCEPT !.SchemaState = StatePublic]
                         tb1 == [tbInfo EXCEPT !.State = StatePublic]
                         c == CreateTable(v.m, schemaID, tb1, fails)
                     IN  IF c.err # Nil THEN Ret(c.m, h, j1, c.err)
                         ELSE Ret(c.m, addTableHistoryInfo(h, j1, v.ver, tb1),
                                  [j1 EXCEPT !.State = JobDone], Nil)
                ELSE Ret(v.m, h, j, ErrInvalidTableState)

\* --------------------------------------------------------- onDropTable
onDropTable(m, h, j, fails) ==
    LET schemaID == j.SchemaID
        tableID == j.TableID
        g == GetTable(m, schemaID, tableID, fails)
        tblInfo == g.val
    IN  IF g.err = ErrDBNotExists
        THEN Ret(m, h, [j EXCEPT !.State = JobCancelled], ErrDatabaseNotExists)
        ELSE IF g.err # Nil THEN Ret(m, h, j, g.err)
        ELSE IF tblInfo = NoTable
        THEN Ret(m, h, [j EXCEPT !.State = JobCancelled], ErrTableNotExists)
        ELSE
        LET v == updateSchemaVersion(m, fails)
        IN  IF v.err # Nil THEN Ret(m, h, j, v.err)
            ELSE IF tblInfo.State = StatePublic
            THEN LET u == UpdateTable(v.m, schemaID,
                                      [tblInfo EXCEPT !.State = StateWriteOnly], fails)
                 IN  Ret(u.m, h, [j EXCEPT !.SchemaState = StateWriteOnly], u.err)
            ELSE IF tblInfo.State = StateWriteOnly
            THEN LET u == UpdateTable(v.m, schemaID,
                                      [tblInfo EXCEPT !.State = StateDeleteOnly], fails)
                 IN  Ret(u.m, h, [j EXCEPT !.SchemaState = StateDeleteOnly], u.err)
            ELSE IF tblInfo.State = StateDeleteOnly
            THEN LET tb1 == [tblInfo EXCEPT !.State = StateNone]
                     u == UpdateTable(v.m, schemaID, tb1, fails)
                     d == DropTable(u.m, j.SchemaID, j.TableID, fails)
                     \* err = t.UpdateTable(...) is overwritten by err = t.DropTable(...)
                 IN  IF d.err # Nil THEN [Ret(d.m, h, j, d.err) EXCEPT !.lost = u.err]
                     ELSE [Ret(d.m, addTableHistoryInfo(h, j, v.ver, tb1),
                               [j EXCEPT !.State = JobDone, !.SchemaState = StateNone],
                               d.err) EXCEPT !.lost = u.err]
            ELSE Ret(v.m, h, j, ErrInvalidTableState)

\* ----------------------------------------------------- onTruncateTable
onTruncateTable(m, h, j, fails) ==
    IF j.Args.bad
    THEN Ret(m, h, [j EXCEPT !.State = JobCancelled], ErrDecodeArgs)
    ELSE
    LET schemaID == j.SchemaID
        tableID == j.TableID
        newTableID == j.Args.newTableID
        g == GetTable(m, schemaID, tableID, fails)
    IN  IF g.err = ErrDBNotExists
        THEN Ret(m, h, [j EXCEPT !.State = JobCancelled], ErrDatabaseNotExists)
        ELSE IF g.err # Nil THEN Ret(m, h, j, g.err)
        ELSE IF g.val = NoTable
        THEN Ret(m, h, [j EXCEPT !.State = JobCancelled], ErrTableNotExists)
        ELSE
        LET d == DropTable(m, schemaID, tableID, fails)
        IN  IF d.err # Nil
            THEN Ret(d.m, h, [j EXCEPT !.State = JobCancelled], d.err)
            ELSE
            LET tb1 == [g.val EXCEPT !.ID = newTableID]
                c == CreateTable(d.m, schemaID, tb1, fails)
            IN  IF c.err # Nil
                THEN Ret(c.m, h, [j EXCEPT !.State = JobCancelled], c.err)
                ELSE
                LET v == updateSchemaVersion(c.m, fails)
                IN  IF v.err # Nil THEN Ret(c.m, h, j, v.err)
                    ELSE Ret(v.m, addTableHistoryInfo(h, j, v.ver, tb1),
                             [j EXCEPT !.State = JobDone], Nil)

\* -------------------------------------------------------- getTableInfo
\* the descriptor handed to the calling handler is val (NoTable for nil)
\* mutant: a descriptor that is WriteOnly passes the state test
getTableInfo_HandsOutWriteOnly(m, j, fails) ==
    LET schemaID == j.SchemaID
        tableID == j.TableID
        g == GetTable(m, schemaID, tableID, fails)
        tblInfo == g.val
    IN  IF g.err = ErrDBNotExists
        THEN [job |-> [j EXCEPT !.State = JobCancelled], val |-> NoTable,
              err |-> ErrDatabaseNotExists]
        ELSE IF g.err # Nil THEN [job |-> j, val |-> NoTable, err |-> g.err]
        ELSE IF tblInfo = NoTable
        THEN [job |-> [j EXCEPT !.State = JobCancelled], val |-> NoTable,
              err |-> ErrTableNotExists]
        ELSE IF tblInfo.State \notin {StatePublic, StateWriteOnly}
        THEN [job |-> [j EXCEPT !.State = JobCancelled], val |-> NoTable,
              err |-> ErrInvalidTableState]
        ELSE [job |-> j, val |-> tblInfo, err |-> Nil]

getTableInfo(m, j, fails) ==
    LET schemaID == j.SchemaID
        tableID == j.TableID
        g == GetTable(m, schemaID, tableID, fails)
        tblInfo == g.val
    IN  IF g.err = ErrDBNotExists
        THEN [job |-> [j EXCEPT !.State = JobCancelled], val |-> NoTable,
              err |-> ErrDatabaseNotExists]
        ELSE IF g.err # Nil THEN [job |-> j, val |-> NoTable, err |-> g.err]
        ELSE IF tblInfo = NoTable
        THEN [job |-> [j EXCEPT !.State = JobCancelled], val |-> NoTable,
              err |-> ErrTableNotExists]
        ELSE IF tblInfo.State # StatePublic
        THEN [job |-> [j EXCEPT !.State = JobCancelled], val |-> NoTable,
              err |-> ErrInvalidTableState]
        ELSE [job |-> j, val |-> tblInfo, err |-> Nil]

\* ------------------------------------------------------- delReorgTable
\* delKeysWithPrefix under EncodeTablePrefix(tID): deletes up to limit rows of
\* the table in one transaction and returns how many; all rows if limit < 0
delKeysWithPrefix(rs, tID, limit, fail) ==
    IF fail THEN [rows |-> rs, delCount |-> 0, err |-> ErrKV]
    ELSE LET n == IF limit < 0 \/ rs[tID] < limit THEN rs[tID] ELSE limit
         IN [rows |-> [rs EXCEPT ![tID] = rs[tID] - n], delCount |-> n, err |-> Nil]

dropTableData(rs, tID, limit, fail) == delKeysWithPrefix(rs, tID, limit, fail)

\* mutant: a full batch ends the job
delReorgTable_FullBatchEnds(rs, j, fail) ==
    LET limit == defaultBatchSize
        r == dropTableData(rs, j.TableID, limit, fail)
    IN  IF r.err # Nil THEN [rows |-> r.rows, job |-> j, err |-> r.err]
        ELSE IF r.delCount <= limit
        THEN [rows |-> r.rows,
              job |-> [j EXCEPT !.SchemaState = StateNone, !.State = JobDone],
              err |-> Nil]
        ELSE [rows |-> r.rows, job |-> j, err |-> Nil]

delReorgTable(rs, j, fail) ==
    LET limit == defaultBatchSize
        r == dropTableData(rs, j.TableID, limit, fail)
    IN  IF r.err # Nil THEN [rows |-> r.rows, job |-> j, err |-> r.err]
        ELSE IF r.delCount < limit
        THEN [rows |-> r.rows,
              job |-> [j EXCEPT !.SchemaState = StateNone, !.State = JobDone],
              err |-> Nil]
        ELSE [rows |-> r.rows, job |-> j, err |-> Nil]

\* ---------------------------------------------------------------- jobs
NewJob(id, type, schemaID, tableID, args) ==
    [ID |-> id, Type |-> type, SchemaID |-> schemaID, TableID |-> tableID,
     Args |-> args, State |-> JobRunning, SchemaState |-> StateNone]

InCatalog(t) == \E d \in DBs : tables[d][t] # NoTable

\* the identifiers a job carries
IDsOf(j) ==
    IF j = NoJob THEN {}
    ELSE {j.TableID} \cup (IF j.Type = "truncate" /\ ~j.Args.bad
                           THEN {j.Args.newTableID} ELSE {})

\* the identifiers the generator has not handed out: not stored, and not
\* carried by the job set aside
FreshIDs == {x \in TableIDs : ~InCatalog(x) /\ x \notin IDsOf(parked)}

\* Table identifiers come from the global identifier generator: a create job
\* carries a fresh identifier, unless it is a job submitted again, and then it
\* carries the descriptor of the table it has created.
CreateJobs(id) ==
    {NewJob(id, "create", s, t, CreateArgs(TableInfo(t, d[1], d[2], StateNone))) :
        s \in SchemaIDs, t \in FreshIDs, d \in TableDefs}
    \cup {NewJob(id, "create", p[1], p[2],
                 CreateArgs([tables[p[1]][p[2]] EXCEPT !.State = StateNone])) :
        p \in {q \in (SchemaIDs \cap DBs) \X TableIDs : tables[q[1]][q[2]] # NoTable}}
    \cup {NewJob(id, "create", s, 10, BadArgs) : s \in SchemaIDs \cap DBs}

DropJobs(id) ==
    {NewJob(id, "drop", s, t, NoArgs) : s \in SchemaIDs, t \in TableIDs}

\* the new identifier of a truncate is a fresh one as well
TruncateJobs(id) ==
    {j \in {NewJob(id, "truncate", s, t, TruncateArgs(n)) :
                s \in SchemaIDs, t \in TableIDs, n \in FreshIDs} :
        j.Args.newTableID # j.TableID}
    \cup {NewJob(id, "truncate", s, 10, BadArgs) : s \in SchemaIDs \cap DBs}

\* the jobs of the handlers that start with getTableInfo
ColumnJobs(id) ==
    {NewJob(id, "column", s, t, NoArgs) : s \in SchemaIDs, t \in TableIDs}

IsFinished(j) == j.State \in {JobDone, JobCancelled}

NoObs == [calls |-> 0, restarted |-> FALSE, n0 |-> 0]

\* ------------------------------------------------------------- actions
Init ==
    /\ tables = [d \in DBs |-> [t \in TableIDs |-> NoTable]]
    /\ schemaVersion = 0
    /\ history = <<>>
    /\ job = NoJob
    /\ parked = NoJob
    /\ nJobs = 0
    /\ rows = [t \in TableIDs |-> 0]
    /\ bgJob = NoJob
    /\ last = NoCall
    /\ obs = NoObs

AllJobs(id) == CreateJobs(id) \cup DropJobs(id) \cup TruncateJobs(id) \cup ColumnJobs(id)

\* the jobs that get past the decoding of their arguments and the lookup of
\* their schema
TableJobs(id) == {j \in AllJobs(id) : j.SchemaID \in DBs /\ ~j.Args.bad}

\* the worker takes the next job of the queue once the previous one is finished
SubmitFrom(jobs) ==
    /\ IF job = NoJob THEN TRUE ELSE IsFinished(job)
    /\ nJobs < MaxJobs
    /\ \E j \in jobs : job' = j
    /\ nJobs' = nJobs + 1
    /\ last' = NoCall
    /\ obs' = NoObs
    /\ UNCHANGED <<tables, schemaVersion, history, parked, rows, bgJob>>

SubmitJob == SubmitFrom(AllJobs(nJobs + 1))

SubmitTableJob == SubmitFrom(TableJobs(nJobs + 1))

Pre == [tables |-> tables, ver |-> schemaVersion, history |-> history, job |-> job,
        rows |-> rows]

\* what an invocation writes: the metadata, the history, the job
ApplyMeta(handler, r) ==
    /\ tables' = r.m.tables
    /\ schemaVersion' = r.m.ver
    /\ history' = r.h
    /\ job' = r.job
    /\ last' = [handler |-> handler, err |-> r.err, lost |-> r.lost, pre |-> Pre]
    /\ obs' = [obs EXCEPT !.calls = IF r.err = Nil THEN @ + 1 ELSE @]
    /\ UNCHANGED <<parked, nJobs, bgJob>>

\* and the rows it leaves alone: no DDL handler calls dropTableData
Apply(handler, r) ==
    /\ ApplyMeta(handler, r)
    /\ UNCHANGED rows

\* the worker runs a job that is not finished; the version is capped
Runnable(type) ==
    /\ IF job = NoJob THEN FALSE ELSE job.Type = type /\ job.State = JobRunning
    /\ schemaVersion < MaxVersion

\* mutant: the new descriptor is stored as WriteOnly
RunCreateTable_StoresWriteOnly ==
    /\ Runnable("create")
    /\ \E fails \in FaultSets :
           LET r == onCreateTable(Meta, history, job, fails)
               s == job.SchemaID
               t == job.TableID
           IN  Apply("onCreateTable",
                     IF r.err = Nil
                     THEN [r EXCEPT !.m.tables[s][t].State = StateWriteOnly]
                     ELSE r)

\* mutant: the incremented version is not stored
RunCreateTable_NoVersion ==
    /\ Runnable("create")
    /\ \E fails \in FaultSets :
           LET r == onCreateTable(Meta, history, job, fails)
           IN  Apply("onCreateTable", [r EXCEPT !.m.ver = schemaVersion])

RunCreateTable ==
    /\ Runnable("create")
    /\ \E fails \in FaultSets :
           Apply("onCreateTable", onCreateTable(Meta, history, job, fails))

\* the metadata with the job's descriptor in the state the job remembers
MetaAsJobRemembers ==
    LET s == job.SchemaID
        t == job.TableID
        st == IF job.SchemaState = StateNone THEN StatePublic ELSE job.SchemaState
    IN  IF s \in DBs /\ tables[s][t] # NoTable
        THEN [Meta EXCEPT !.tables[s][t].State = st]
        ELSE Meta

\* mutant: the step is chosen from the job's in-memory sub-state, not from
\* the stored descriptor
RunDropTable_FromJobState ==
    /\ Runnable("drop")
    /\ \E fails \in FaultSets :
           Apply("onDropTable", onDropTable(MetaAsJobRemembers, history, job, fails))

\* mutant: the first step goes from Public straight to DeleteOnly
RunDropTable_SkipsWriteOnly ==
    /\ Runnable("drop")
    /\ \E fails \in FaultSets :
           LET r == onDropTable(Meta, history, job, fails)
               s == job.SchemaID
               t == job.TableID
           IN  Apply("onDropTable",
                     IF r.err = Nil /\ r.job.SchemaState = StateWriteOnly
                     THEN [r EXCEPT !.m.tables[s][t].State = StateDeleteOnly,
                                    !.job.SchemaState = StateDeleteOnly]
                     ELSE r)

\* mutant: the version is incremented before the table is looked up
RunDropTable_BumpsFirst ==
    /\ Runnable("drop")
    /\ \E fails \in FaultSets :
           LET r == onDropTable(Meta, history, job, fails)
           IN  Apply("onDropTable",
                     IF r.err \in {ErrDatabaseNotExists, ErrTableNotExists}
                     THEN [r EXCEPT !.m.ver = schemaVersion + 1]
                     ELSE r)

RunDropTable ==
    /\ Runnable("drop")
    /\ \E fails \in FaultSets :
           Apply("onDropTable", onDropTable(Meta, history, job, fails))

\* mutant: the version is not incremented
RunTruncateTable_NoVersion ==
    /\ Runnable("truncate")
    /\ \E fails \in FaultSets :
           LET r == onTruncateTable(Meta, history, job, fails)
           IN  Apply("onTruncateTable", [r EXCEPT !.m.ver = schemaVersion])

\* mutant: the new descriptor loses the columns of the old one
RunTruncateTable_LosesColumns ==
    /\ Runnable("truncate")
    /\ \E fails \in FaultSets :
           LET r == onTruncateTable(Meta, history, job, fails)
               s == job.SchemaID
           IN  Apply("onTruncateTable",
                     IF r.err = Nil
                     THEN [r EXCEPT !.m.tables[s][job.Args.newTableID].Cols = ""]
                     ELSE r)

\* mutant: the new descriptor is stored in another schema
RunTruncateTable_OtherSchema ==
    /\ Runnable("truncate")
    /\ \E fails \in FaultSets :
           LET r == onTruncateTable(Meta, history, job, fails)
               s == job.SchemaID
               n == job.Args.newTableID
               o == CHOOSE d \in DBs : d # s
           IN  Apply("onTruncateTable",
                     IF r.err = Nil
                     THEN [r EXCEPT !.m.tables[o][n] = r.m.tables[s][n],
                                    !.m.tables[s][n] = NoTable]
                     ELSE r)

\* mutant: the truncate deletes the rows of the old identifier itself
RunTruncateTable_DropsData ==
    /\ Runnable("truncate")
    /\ \E fails \in FaultSets :
           LET r == onTruncateTable(Meta, history, job, fails)
           IN  /\ ApplyMeta("onTruncateTable", r)
               /\ rows' = IF r.err = Nil THEN [rows EXCEPT ![job.TableID] = 0] ELSE rows

\* mutant: the descriptor under the old identifier is not removed
RunTruncateTable_KeepsOld ==
    /\ Runnable("truncate")
    /\ \E fails \in FaultSets :
           LET r == onTruncateTable(Meta, history, job, fails)
               s == job.SchemaID
           IN  Apply("onTruncateTable",
                     IF r.err = Nil
                     THEN [r EXCEPT !.m.tables[s][job.TableID] = tables[s][job.TableID]]
                     ELSE r)

RunTruncateTable ==
    /\ Runnable("truncate")
    /\ \E fails \in FaultSets :
           Apply("onTruncateTable", onTruncateTable(Meta, history, job, fails))

\* a handler of a column job calls getTableInfo first; what it does with the
\* descriptor is not part of this model
RunGetTableInfo ==
    /\ IF job = NoJob THEN FALSE ELSE job.Type = "column" /\ job.State = JobRunning
    /\ \E fails \in FaultSets :
           LET r == getTableInfo(Meta, job, fails)
           IN  /\ job' = r.job
               /\ last' = [handler |-> "getTableInfo", err |-> r.err, lost |-> Nil,
                           val |-> r.val, pre |-> Pre]
    /\ UNCHANGED <<tables, schemaVersion, history, parked, nJobs, rows, bgJob, obs>>

\* a restart of the process between two invocations: the job is read back
\* from the queue and its in-memory sub-state is gone
Restart ==
    /\ IF job = NoJob THEN FALSE ELSE job.State = JobRunning
    /\ ~obs.restarted \/ job.SchemaState # StateNone
    /\ job' = [job EXCEPT !.SchemaState = StateNone]
    /\ last' = NoCall
    /\ obs' = [obs EXCEPT !.restarted = TRUE]
    /\ UNCHANGED <<tables, schemaVersion, history, parked, nJobs, rows, bgJob>>

Next ==
    \/ SubmitJob
    \/ RunCreateTable
    \/ RunDropTable
    \/ RunTruncateTable
    \/ RunGetTableInfo
    \/ Restart

Spec == Init /\ [][Next]_vars

\* ----------------------------------------- a table in another schema
\* the catalog after a create job, earlier than the jobs of the model, has
\* stored a table in schema 7: it has the name a job may give a table of
\* schema 5
OtherTable == TableInfo(20, "t", "a", StatePublic)

InitFrame ==
    /\ tables = [d \in DBs |-> [t \in TableIDs |->
                    IF d = 7 /\ t = OtherTable.ID THEN OtherTable ELSE NoTable]]
    /\ schemaVersion = 1
    /\ history = <<[ver |-> 1, jobID |-> 0, tbl |-> OtherTable]>>
    /\ job = NoJob
    /\ parked = NoJob
    /\ nJobs = 0
    /\ rows = [t \in TableIDs |-> 0]
    /\ bgJob = NoJob
    /\ last = NoCall
    /\ obs = NoObs

SpecFrame == InitFrame /\ [][Next]_vars

\* --------------------------------------------- a table with its rows
\* the catalog after a create job, earlier than the jobs of the model, has
\* stored a table in schema 5 and statements have written rows into it
FirstTable == TableInfo(10, "t", "a", StatePublic)

InitTable ==
    /\ tables = [d \in DBs |-> [t \in TableIDs |->
                    IF d = 5 /\ t = FirstTable.ID THEN FirstTable ELSE NoTable]]
    /\ schemaVersion = 1
    /\ history = <<[ver |-> 1, jobID |-> 0, tbl |-> FirstTable]>>
    /\ job = NoJob
    /\ parked = NoJob
    /\ nJobs = 0
    /\ rows = [t \in TableIDs |-> IF t = FirstTable.ID THEN defaultBatchSize + 1 ELSE 0]
    /\ bgJob = NoJob
    /\ last = NoCall
    /\ obs = NoObs

\* ------------------------------------------- two jobs, interleaved
\* after a handler invocation that has left its job Running, the worker sets
\* the job aside and goes on with the job it had set aside, or takes a new one:
\* the invocations of the two jobs interleave.  A finished job is not set aside,
\* and neither is a column job, whose invocation goes on after getTableInfo.
Swap ==
    /\ IF job = NoJob THEN parked # NoJob
       ELSE IF job.State = JobRunning
            THEN last # NoCall /\ job.Type # "column"
            ELSE parked # NoJob
    /\ job' = parked
    /\ parked' = IF job = NoJob THEN NoJob
                 ELSE IF job.State = JobRunning THEN job ELSE NoJob
    /\ last' = NoCall
    /\ obs' = NoObs
    /\ UNCHANGED <<tables, schemaVersion, history, nJobs, rows, bgJob>>

NextInterleave ==
    \/ SubmitTableJob
    \/ RunCreateTable
    \/ RunDropTable
    \/ RunTruncateTable
    \/ RunGetTableInfo
    \/ Swap

SpecInterleave == InitTable /\ [][NextInterleave]_vars

\* ------------------------------------- the handlers and the reclamation
\* a statement writes rows into a table that is stored as Public and empty:
\* one batch and one row, so that the reclamation takes two invocations
InsertRows ==
    /\ \E d \in DBs, t \in TableIDs :
           /\ tables[d][t] # NoTable
           /\ tables[d][t].State = StatePublic
           /\ rows[t] = 0
           /\ rows' = [rows EXCEPT ![t] = defaultBatchSize + 1]
    /\ last' = NoCall
    /\ UNCHANGED <<tables, schemaVersion, history, job, parked, nJobs, bgJob, obs>>

\* a drop or a truncate that is Done hands the old identifier to the
\* background worker, once the worker is free
SubmitBgJob ==
    /\ IF job = NoJob THEN FALSE
       ELSE job.Type \in {"drop", "truncate"} /\ job.State = JobDone
    /\ IF bgJob = NoJob THEN TRUE
       ELSE IsFinished(bgJob) /\ bgJob.ID # job.ID
    /\ bgJob' = NewJob(job.ID, "reorg", job.SchemaID, job.TableID, NoArgs)
    /\ last' = NoCall
    /\ UNCHANGED <<tables, schemaVersion, history, job, parked, nJobs, rows, obs>>

\* the background worker invokes delReorgTable for its job while it is Running
RunDelReorgTableBg ==
    /\ IF bgJob = NoJob THEN FALSE ELSE bgJob.State = JobRunning
    /\ \E fail \in BOOLEAN :
           LET r == delReorgTable(rows, bgJob, fail)
           IN  /\ rows' = r.rows
               /\ bgJob' = r.job
               /\ last' = [handler |-> "delReorgTable", err |-> r.err,
                           pre |-> [rows |-> rows, job |-> bgJob]]
    /\ UNCHANGED <<tables, schemaVersion, history, job, parked, nJobs, obs>>

NextRows ==
    \/ SubmitTableJob
    \/ RunCreateTable
    \/ RunDropTable
    \/ RunTruncateTable
    \/ RunGetTableInfo
    \/ InsertRows
    \/ SubmitBgJob
    \/ RunDelReorgTableBg

SpecRows == InitTable /\ [][NextRows]_vars

\* ------------------------------------------------- reclamation alone
\* the background worker with a reclamation job for a table whose rows were
\* orphaned by a drop or a truncate
InitReorg ==
    /\ tables = [d \in DBs |-> [t \in TableIDs |-> NoTable]]
    /\ schemaVersion = 0
    /\ history = <<>>
    /\ job = NoJob
    /\ parked = NoJob
    /\ nJobs = 0
    /\ rows \in [TableIDs -> 0..MaxRows]
    /\ \E t \in TableIDs, st \in SchemaStates :
           bgJob = [NewJob(1, "reorg", 5, t, NoArgs) EXCEPT !.SchemaState = st]
    /\ last = NoCall
    /\ obs = [NoObs EXCEPT !.n0 = rows[bgJob.TableID]]

\* the background worker invokes the handler again for as long as the job is
\* Running; invoking it for a job that is Done is allowed, MaxRows + 2 times at most
RunDelReorgTable ==
    /\ bgJob # NoJob
    /\ obs.calls < MaxRows + 2
    /\ \E fail \in BOOLEAN :
           LET r == delReorgTable(rows, bgJob, fail)
           IN  /\ rows' = r.rows
               /\ bgJob' = r.job
               /\ last' = [handler |-> "delReorgTable", err |-> r.err,
                           pre |-> [rows |-> rows, job |-> bgJob]]
               /\ obs' = [obs EXCEPT !.calls = IF r.err = Nil THEN @ + 1 ELSE @]
    /\ UNCHANGED <<tables, schemaVersion, history, job, parked, nJobs>>

NextReorg == RunDelReorgTable

SpecReorg == InitReorg /\ [][NextReorg]_vars

\* ================================================================ claims
DDLHandlers == {"onCreateTable", "onDropTable", "onTruncateTable"}
Called(h) == last.handler = h
Succeeded(h) == last.handler = h /\ last.err = Nil

\* the descriptor a job targets, and its visibility ("absent" when not stored)
Desc(tbls, j) == IF j.SchemaID \in DBs THEN tbls[j.SchemaID][j.TableID] ELSE NoTable
Vis(d) == IF d = NoTable THEN "absent" ELSE d.State
VisBefore == Vis(Desc(last.pre.tables, job))
VisAfter == Vis(Desc(tables, job))

ChangedDesc == tables # last.pre.tables
Bumped == schemaVersion # last.pre.ver
Appended == history # last.pre.history
AppendedOne ==
    /\ Len(history) = Len(last.pre.history) + 1
    /\ SubSeq(history, 1, Len(last.pre.history)) = last.pre.history
MetaUnchanged == ~ChangedDesc /\ ~Bumped /\ ~Appended

\* C1: a successful onDropTable invocation moves the stored descriptor one step,
\* Public to WriteOnly (the job's first successful invocation, job Running),
\* WriteOnly to DeleteOnly (the second, Running), DeleteOnly to absent (the
\* third, Done), whatever a restart did to the job's in-memory sub-state; a drop
\* job is Done after exactly three successful invocations.
C1_DropTakesThreeSteps ==
    /\ Succeeded("onDropTable") =>
          /\ VisBefore \in {StatePublic, StateWriteOnly, StateDeleteOnly}
          /\ VisBefore = StatePublic =>
                VisAfter = StateWriteOnly /\ job.State = JobRunning /\ obs.calls = 1
          /\ VisBefore = StateWriteOnly =>
                VisAfter = StateDeleteOnly /\ job.State = JobRunning /\ obs.calls = 2
          /\ VisBefore = StateDeleteOnly =>
                VisAfter = "absent" /\ job.State = JobDone /\ obs.calls = 3
    /\ (job # NoJob /\ job.Type = "drop" /\ job.State = JobDone) => obs.calls = 3

\* a drop is Done after three successful invocations, with a restart in between
C1_Witness ==
    /\ Succeeded("onDropTable")
    /\ job.State = JobDone
    /\ obs.calls = 3
    /\ obs.restarted
    /\ VisBefore = StateDeleteOnly
    /\ VisAfter = "absent"

ForwardSteps ==
    {<<"absent", StatePublic>>, <<StatePublic, StateWriteOnly>>,
     <<StateWriteOnly, StateDeleteOnly>>, <<StateDeleteOnly, "absent">>}
Forward(a, b) == a = b \/ <<a, b>> \in ForwardSteps
AllForward ==
    \A d \in DBs, t \in TableIDs : Forward(Vis(last.pre.tables[d][t]), Vis(tables[d][t]))

C3_Original ==
    (last.handler \in DDLHandlers /\ last.err = Nil /\ ChangedDesc) =>
        /\ schemaVersion = last.pre.ver + 1
        /\ AppendedOne

\* C3 as amended: a successful invocation that changes a stored descriptor
\* increases the version by exactly 1; it appends exactly one history entry,
\* carrying that version, when it ends the job Done, and none when the job stays
\* Running (the first two steps of a drop), so that there are at most as many
\* history entries as version increments.
C3_VersionPerStepHistoryPerJob ==
    /\ (last.handler \in DDLHandlers /\ last.err = Nil /\ ChangedDesc) =>
          /\ schemaVersion = last.pre.ver + 1
          /\ job.State = JobDone =>
                /\ AppendedOne
                /\ history[Len(history)].ver = schemaVersion
          /\ job.State # JobDone => ~Appended
    /\ Len(history) <= schemaVersion

\* a drop step has changed the descriptor and the version and appended nothing
C3_Witness ==
    /\ Succeeded("onDropTable")
    /\ ChangedDesc
    /\ job.State = JobRunning
    /\ schemaVersion = last.pre.ver + 1
    /\ ~Appended

\* the job's descriptor names a table stored as Public under the same identifier
Resubmitted ==
    /\ ~last.pre.job.Args.bad
    /\ last.pre.job.SchemaID \in DBs
    /\ LET d == Desc(last.pre.tables, last.pre.job)
       IN  /\ d # NoTable
           /\ d.ID = last.pre.job.Args.tbInfo.ID
           /\ d.Name.L = last.pre.job.Args.tbInfo.Name.L
           /\ d.State = StatePublic

\* C4: onCreateTable for a job whose descriptor matches, in name and identifier,
\* a table stored as Public returns no error (when no store operation failed),
\* appends no history entry and leaves the catalog as it was.
C4_ResubmittedCreateIsDone ==
    (Called("onCreateTable") /\ Resubmitted /\ last.err # ErrKV) =>
        /\ last.err = Nil
        /\ ~Appended
        /\ ~ChangedDesc

\* C5: in every handler invocation the descriptor change and the version
\* increment take effect together or not at all, and a history entry is appended
\* only together with both.
C5_StepIsAllOrNothing ==
    last.handler \in DDLHandlers =>
        /\ ChangedDesc <=> Bumped
        /\ Appended => (ChangedDesc /\ Bumped)

\* C6: a handler invocation that ends in a store failure leaves the job as it
\* was before the invocation: outcome Running, sub-state as before.
C6_StoreFailureLeavesJob ==
    (last.handler \in DDLHandlers /\ last.err = ErrKV) =>
        /\ job.State = JobRunning
        /\ job.SchemaState = last.pre.job.SchemaState
        /\ job = last.pre.job

\* C7: after a truncate that ends Done, with old identifier A and new identifier
\* B, no descriptor is stored under A, the descriptor under B has the name and
\* columns of the old one and is Public, and the version is 1 higher.
C7_TruncateRebinds ==
    (Called("onTruncateTable") /\ job.State = JobDone) =>
        LET s == job.SchemaID
            a == job.TableID
            b == job.Args.newTableID
            old == last.pre.tables[s][a]
        IN  /\ last.err = Nil
            /\ old # NoTable
            /\ tables[s][a] = NoTable
            /\ tables[s][b] # NoTable
            /\ tables[s][b].ID = b
            /\ tables[s][b].Name = old.Name
            /\ tables[s][b].Cols = old.Cols
            /\ tables[s][b].State = StatePublic
            /\ schemaVersion = last.pre.ver + 1

\* a truncate has ended Done and rebound a table with columns "ab"
C7_Witness ==
    /\ Called("onTruncateTable")
    /\ job.State = JobDone
    /\ tables[job.SchemaID][job.Args.newTableID].Cols = "ab"
    /\ tables[job.SchemaID][job.TableID] = NoTable

Min(a, b) == IF a < b THEN a ELSE b
Deleted == last.pre.rows[bgJob.TableID] - rows[bgJob.TableID]

\* C8: a successful delReorgTable invocation deletes min(limit, remaining) rows
\* of the job's table and no other row; it leaves the job as it was when it
\* deleted a full batch and marks it Done, with sub-state None, otherwise.  The
\* job is never Done while rows of its table remain; with N rows at the start
\* it is Done from the (N \div limit + 1)-th successful invocation on, and an
\* invocation for a Done job deletes nothing and leaves it Done.
C8_ReclaimsInBatches ==
    /\ Succeeded("delReorgTable") =>
          /\ Deleted = Min(defaultBatchSize, last.pre.rows[bgJob.TableID])
          /\ \A t \in TableIDs \ {bgJob.TableID} : rows[t] = last.pre.rows[t]
          /\ Deleted = defaultBatchSize => bgJob = last.pre.job
          /\ Deleted < defaultBatchSize =>
                bgJob.State = JobDone /\ bgJob.SchemaState = StateNone
          /\ last.pre.job.State = JobDone => (Deleted = 0 /\ bgJob.State = JobDone)
    /\ bgJob # NoJob =>
          /\ bgJob.State = JobDone => rows[bgJob.TableID] = 0
          /\ bgJob.State = JobDone <=> obs.calls >= (obs.n0 \div defaultBatchSize) + 1
          /\ bgJob.State \in {JobRunning, JobDone}

\* the reclamation of MaxRows rows has ended with a last, partial batch
C8_Witness ==
    /\ Succeeded("delReorgTable")
    /\ obs.n0 = MaxRows
    /\ last.pre.job.State = JobRunning
    /\ bgJob.State = JobDone
    /\ obs.calls = (MaxRows \div defaultBatchSize) + 1
    /\ Deleted = MaxRows % defaultBatchSize

\* the job's descriptor has the case-normalized name of a stored table with
\* another identifier
NameCollision ==
    /\ ~last.pre.job.Args.bad
    /\ last.pre.job.SchemaID \in DBs
    /\ \E t \in TableIDs :
          LET d == last.pre.tables[last.pre.job.SchemaID][t]
          IN  /\ d # NoTable
              /\ d.Name.L = last.pre.job.Args.tbInfo.Name.L
              /\ d.ID # last.pre.job.Args.tbInfo.ID

\* C9: onCreateTable for a job whose descriptor has the case-normalized name of
\* a stored table with another identifier leaves the catalog, the version and
\* the history as they were, and ends the job Cancelled with the table-exists
\* error; the one other outcome is a failed listing, which is reported and
\* leaves the job to be run again.
C9_NameCollisionCancels ==
    (Called("onCreateTable") /\ NameCollision) =>
        /\ MetaUnchanged
        /\ \/ last.err = ErrTableExists /\ job = [last.pre.job EXCEPT !.State = JobCancelled]
           \/ last.err = ErrKV /\ job = last.pre.job

\* a create of "T" was cancelled because "t" is stored, or the other way round
C9_Witness ==
    /\ Called("onCreateTable")
    /\ NameCollision
    /\ last.err = ErrTableExists
    /\ job.State = JobCancelled
    /\ \A t \in TableIDs :
          LET d == tables[job.SchemaID][t]
          IN  d # NoTable => d.Name.O # job.Args.tbInfo.Name.O

\* the schema exists and no stored table has the name of the job's descriptor
CanCreate ==
    /\ ~last.pre.job.Args.bad
    /\ last.pre.job.SchemaID \in DBs
    /\ \A t \in TableIDs :
          LET d == last.pre.tables[last.pre.job.SchemaID][t]
          IN  d # NoTable => d.Name.L # last.pre.job.Args.tbInfo.Name.L

\* C10: a successful onCreateTable invocation leaves the job's descriptor stored
\* as Public, the job Done with sub-state Public, the version 1 higher and one
\* more history entry, which carries that version and the descriptor; and the
\* invocation is successful whenever the schema exists, no stored table has the
\* name and no store operation fails.
C10_CreateMakesPublic ==
    /\ Succeeded("onCreateTable") =>
          LET s == job.SchemaID
              want == [job.Args.tbInfo EXCEPT !.State = StatePublic]
          IN  /\ CanCreate
              /\ last.pre.tables[s][want.ID] = NoTable
              /\ tables = [last.pre.tables EXCEPT ![s][want.ID] = want]
              /\ job = [last.pre.job EXCEPT !.State = JobDone, !.SchemaState = StatePublic]
              /\ schemaVersion = last.pre.ver + 1
              /\ AppendedOne
              /\ history[Len(history)] =
                    [ver |-> schemaVersion, jobID |-> job.ID, tbl |-> want]
    /\ (Called("onCreateTable") /\ CanCreate /\ last.err # ErrKV) => last.err = Nil

\* a create has succeeded
C10_Witness ==
    /\ Succeeded("onCreateTable")
    /\ CanCreate
    /\ job.State = JobDone
    /\ Vis(Desc(tables, job)) = StatePublic
    /\ Vis(Desc(last.pre.tables, job)) = "absent"

\* C11: an onCreateTable or onDropTable invocation that returns the invalid-state
\* error (the stored descriptor is in a state the handler does not advance from)
\* has changed no stored descriptor, has appended no history entry and has not
\* left the job Running, the outcome that makes the scheduler run it again.
C11_InvalidStateEndsJob ==
    (last.handler \in {"onCreateTable", "onDropTable"}
        /\ last.err = ErrInvalidTableState) =>
        /\ ~ChangedDesc
        /\ ~Appended
        /\ job.State # JobRunning

\* C12: no two descriptors stored as Public in one schema have the same
\* case-normalized name.
C12_PublicNamesUnique ==
    \A d \in DBs, t1 \in TableIDs, t2 \in TableIDs :
        (/\ t1 # t2
         /\ Vis(tables[d][t1]) = StatePublic
         /\ Vis(tables[d][t2]) = StatePublic)
        => tables[d][t1].Name.L # tables[d][t2].Name.L

\* two Public tables are stored in one schema, and the truncate of one of them
\* has just stored it under its new identifier
C12_Witness ==
    /\ Succeeded("onTruncateTable")
    /\ job.State = JobDone
    /\ \E t \in TableIDs \ {job.Args.newTableID} :
          /\ Vis(tables[job.SchemaID][t]) = StatePublic
          /\ Vis(tables[job.SchemaID][job.Args.newTableID]) = StatePublic

SchemaMissing == last.pre.job.SchemaID \notin DBs
TableMissing ==
    /\ last.pre.job.SchemaID \in DBs
    /\ Desc(last.pre.tables, last.pre.job) = NoTable
\* the job is Cancelled with the cause; the one other outcome is a failed read
CancelledWith(cause) ==
    \/ last.err = cause /\ job = [last.pre.job EXCEPT !.State = JobCancelled]
    \/ last.err = ErrKV /\ job = last.pre.job

\* C14: a create, drop, truncate or getTableInfo invocation for a job whose
\* schema does not exist ends the job Cancelled with the schema-not-found error;
\* a drop, truncate or getTableInfo invocation for a job whose table is not
\* stored in its schema ends the job Cancelled with the table-not-found error;
\* both leave the catalog, the version and the history as they were.  The one
\* other outcome is a failed read of the store, which is reported and leaves the
\* job and the metadata as they were.
C14_MissingSchemaOrTableCancels ==
    /\ (/\ last.handler \in DDLHandlers \cup {"getTableInfo"}
        /\ ~last.pre.job.Args.bad
        /\ SchemaMissing)
       => MetaUnchanged /\ CancelledWith(ErrDatabaseNotExists)
    /\ (/\ last.handler \in {"onDropTable", "onTruncateTable", "getTableInfo"}
        /\ ~last.pre.job.Args.bad
        /\ TableMissing)
       => MetaUnchanged /\ CancelledWith(ErrTableNotExists)

\* a truncate was cancelled because its table is not stored in a schema that
\* holds another table
C14_Witness ==
    /\ Called("onTruncateTable")
    /\ TableMissing
    /\ last.err = ErrTableNotExists
    /\ job.State = JobCancelled
    /\ \E t \in TableIDs : tables[job.SchemaID][t] # NoTable

\* the descriptor whose lifecycle phase the job's sub-state mirrors: the one
\* under the job's table identifier, and after a truncate the one under the
\* new identifier
Phase ==
    LET d == IF last.handler = "onTruncateTable" /\ job.SchemaID \in DBs
             THEN tables[job.SchemaID][job.Args.newTableID]
             ELSE Desc(tables, job)
    IN  IF d = NoTable THEN StateNone ELSE d.State

\* C16: after a successful create, drop or truncate invocation the job's
\* sub-state is the visibility of the stored descriptor of the table the job
\* targets (Public after create, WriteOnly and DeleteOnly during drop, Public
\* after truncate), and None when the table has been removed.
C16_SubStateMirrorsPhase ==
    (last.handler \in DDLHandlers /\ last.err = Nil) => job.SchemaState = Phase

\* C18: an onDropTable invocation that marks the job Done and returns no error
\* is one in which no write it issued has failed; and an invocation in which the
\* UpdateTable write of the DeleteOnly step has failed returns an error and does
\* not end with the job Done.
C18_DoneOnlyWhenWritesSucceeded ==
    Called("onDropTable") =>
        /\ (job.State = JobDone /\ last.err = Nil) => last.lost = Nil
        /\ last.lost # Nil => (last.err # Nil /\ job.State # JobDone)

Advanceable == {StatePublic, StateWriteOnly, StateDeleteOnly}

\* C19: an onDropTable invocation on a descriptor the handler advances from
\* (Public, WriteOnly, DeleteOnly) ends either with the job Done and the table
\* absent, or with the job Running and the descriptor still in a state the
\* handler advances from, whatever store operation has failed: so that running
\* the job again, with failures that are transient, ends with the job Done.
C19_DropStaysAdvanceable ==
    (Called("onDropTable") /\ VisBefore \in Advanceable) =>
        \/ job.State = JobDone /\ VisAfter = "absent"
        \/ job.State = JobRunning /\ VisAfter \in Advanceable

\* the descriptor stored under the job's (schema, table) when getTableInfo ran
Stored == Desc(last.pre.tables, last.pre.job)

\* C13: getTableInfo hands out a descriptor only when the descriptor stored under
\* the job's (schema, table) is Public, and then that descriptor, with no error
\* and the job as it was; when the stored descriptor is WriteOnly, DeleteOnly or
\* None it hands out none and ends the job Cancelled with the invalid-state
\* error (or, the read of the store failing, reports that and leaves the job as
\* it was) - at every point of a drop whose invocations interleave with the
\* job's.
C13_OnlyPublicIsHandedOut ==
    Called("getTableInfo") =>
        /\ last.val # NoTable =>
              /\ Vis(Stored) = StatePublic
              /\ last.val = Stored
              /\ last.err = Nil
              /\ job = last.pre.job
        /\ Vis(Stored) \in {StateWriteOnly, StateDeleteOnly, StateNone} =>
              /\ last.val = NoTable
              /\ CancelledWith(ErrInvalidTableState)
        /\ (Vis(Stored) = StatePublic /\ last.err # ErrKV) => last.val = Stored

\* getTableInfo has refused a descriptor that a drop, set aside after its first
\* step, has left WriteOnly
C13_Witness ==
    /\ Called("getTableInfo")
    /\ Vis(Stored) = StateWriteOnly
    /\ last.val = NoTable
    /\ last.err = ErrInvalidTableState
    /\ job.State = JobCancelled
    /\ parked # NoJob
    /\ parked.Type = "drop"
    /\ parked.TableID = job.TableID
    /\ parked.State = JobRunning

\* C17: no handler invocation decreases the schema version, and the history
\* entries carry strictly increasing versions, none above the schema version:
\* no two entries, of whatever jobs and however their invocations interleave,
\* carry the same version.
C17_VersionsIncrease ==
    /\ last.handler \in DDLHandlers \cup {"getTableInfo"} =>
          schemaVersion >= last.pre.ver
    /\ \A i \in 1..Len(history), k \in 1..Len(history) :
          i < k => history[i].ver < history[k].ver
    /\ \A i \in 1..Len(history) : history[i].ver <= schemaVersion

\* a job submitted later has its history entry before that of a job submitted
\* earlier: a drop was set aside between two of its steps and a create ran
C17_Witness ==
    /\ Succeeded("onDropTable")
    /\ job.State = JobDone
    /\ \E i \in 1..Len(history), k \in 1..Len(history) :
          /\ i < k
          /\ history[i].jobID > history[k].jobID
          /\ history[k].jobID = job.ID

\* C15: a create, drop, truncate or getTableInfo invocation leaves the rows
\* under every table identifier as they were; a delReorgTable invocation removes
\* rows of its job's table only; fewer rows than were written are found only
\* under the identifier of a reclamation job; and after a truncate that is Done
\* the new identifier is not the old one and the rows under the old one are
\* those of before.
C15_OnlyReclamationDeletesRows ==
    /\ last.handler \in DDLHandlers \cup {"getTableInfo"} => rows = last.pre.rows
    /\ Called("delReorgTable") =>
          \A t \in TableIDs :
              /\ rows[t] <= last.pre.rows[t]
              /\ t # bgJob.TableID => rows[t] = last.pre.rows[t]
    /\ \A t \in TableIDs :
          rows[t] \notin {0, defaultBatchSize + 1} =>
              (bgJob # NoJob /\ bgJob.TableID = t)
    /\ (Called("onTruncateTable") /\ job.State = JobDone) =>
          /\ job.Args.newTableID # job.TableID
          /\ rows[job.TableID] = last.pre.rows[job.TableID]
          /\ tables[job.SchemaID][job.TableID] = NoTable

\* a truncate is Done, the table is stored under the new identifier and the
\* rows written under the old one are all there
C15_Witness ==
    /\ Called("onTruncateTable")
    /\ job.State = JobDone
    /\ rows[job.TableID] = defaultBatchSize + 1
    /\ tables[job.SchemaID][job.Args.newTableID] # NoTable
    /\ bgJob = NoJob

\* C20: a create, drop, truncate or getTableInfo invocation leaves the
\* descriptor of every table as it was, in the job's schema and in any other,
\* except under the job's schema and the job's table identifier and, for a
\* truncate, the new identifier of the job's arguments: whether it returns no
\* error, cancels the job or fails.
C20_OtherDescriptorsUntouched ==
    last.handler \in DDLHandlers \cup {"getTableInfo"} =>
        \A d \in DBs, t \in TableIDs :
            (d # last.pre.job.SchemaID \/ t \notin IDsOf(last.pre.job)) =>
                tables[d][t] = last.pre.tables[d][t]

\* a drop step has changed the job's descriptor, beside another Public table
\* of the same schema and a table of another schema
C20_Witness ==
    /\ Succeeded("onDropTable")
    /\ ChangedDesc
    /\ \E t \in TableIDs \ {job.TableID} :
          Vis(tables[job.SchemaID][t]) = StatePublic
    /\ \E d \in DBs \ {job.SchemaID}, t \in TableIDs : tables[d][t] # NoTable

====
